---- MODULE Spec2Model ----
(***************************************************************************)
(* The birthday-presents program (src/src/birthday_presents.rs): servants  *)
(* move presents from a shuffled bag into a sorted chain and write thank   *)
(* you cards for the presents at the front of the chain, each deciding on  *)
(* its own when to stop.  One action per statement of the servant loop     *)
(* that touches shared state; pc[s] is the line servant s is about to      *)
(* execute.                                                                *)
(***************************************************************************)
EXTENDS Integers, Sequences, FiniteSets, TLC

\* Largest bag and largest number of servants explored (the program fixes
\* BAG_SIZE = 500000 and 4 servants).
MaxBag == 3
MaxServants == 3

\* Largest present handed to add_present_to_chain when it is exercised alone.
MaxItem == 5

None == 0

VARIABLES
    BAG_SIZE,           \* number of presents put in the bag
    servants,           \* the set of spawned servant threads
    large_bag,          \* Mutex<Vec<usize>>: the contents
    bag_lock,           \* holder of the bag mutex, None when free
    chain_of_presents,  \* RwLock<LinkedList<usize>>: the contents
    chain_writer,       \* holder of the chain write guard, None when free
    chain_readers,      \* holders of chain read guards
    thank_you_counter,  \* AtomicU64
    current_action,     \* per servant
    maybe_present,      \* per servant: the present in its hand, None if none
    is_empty,           \* per servant: result of the last is_empty() call
    pc,                 \* per thread: position in the closure, "unspawned"
                        \* for a thread main did not spawn
    main_pc,            \* position of main
    final_counter,      \* what main reports
    added,              \* history: times each present was put on the chain
    thanked             \* history: times a card was written for each present

vars == <<BAG_SIZE, servants, large_bag, bag_lock, chain_of_presents,
          chain_writer, chain_readers, thank_you_counter, current_action,
          maybe_present, is_empty, pc, main_pc, final_counter, added, thanked>>

Presents == 1..BAG_SIZE

\* All orders of the presents 1..n in the bag after the shuffle.
Shuffles(n) == {q \in [1..n -> 1..n] : \A i, j \in 1..n : i # j => q[i] # q[j]}

\* A rotation that never leaves the action it is given.
NextActionStuck(a) == a

\* A rotation whose every arm yields AddPresentToChain.
NextActionAlwaysAdd(a) == "AddPresentToChain"

\* The rotation at the head of the loop.
NextAction(a) ==
    CASE a = "AddPresentToChain" -> "WriteThankYouCard"
      [] a = "WriteThankYouCard" -> "AddPresentToChain"
      [] OTHER -> "AddPresentToChain"

\* Index of the first item of the chain greater than the present, None if
\* there is none: the for loop of add_present_to_chain.
RECURSIVE InsertionIndex(_, _, _)
InsertionIndex(chain, present, index) ==
    IF index > Len(chain) THEN None
    ELSE IF present < chain[index] THEN index
    ELSE InsertionIndex(chain, present, index + 1)

\* Line 86 in place of line 87: the present goes to the back of the chain.
add_present_push_back(chain, present) == Append(chain, present)

\* Line 86 kept together with line 87: the present goes on the chain twice.
add_present_twice(chain, present) ==
    LET pushed == Append(chain, present)
        insertion_index == InsertionIndex(pushed, present, 1) IN
    IF insertion_index # None
    THEN Append(SubSeq(pushed, 1, insertion_index - 1), present)
             \o SubSeq(pushed, insertion_index, Len(pushed))
    ELSE Append(pushed, present)

\* split_off(index + 1): the present goes behind the first greater item.
add_present_after_greater(chain, present) ==
    LET insertion_index == InsertionIndex(chain, present, 1) IN
    IF insertion_index # None
    THEN Append(SubSeq(chain, 1, insertion_index), present)
             \o SubSeq(chain, insertion_index + 1, Len(chain))
    ELSE Append(chain, present)

add_present_to_chain(chain, present) ==
    LET insertion_index == InsertionIndex(chain, present, 1) IN
    IF insertion_index # None
    THEN LET head  == SubSeq(chain, 1, insertion_index - 1)
             split == SubSeq(chain, insertion_index, Len(chain))
         IN (Append(head, present)) \o split
    ELSE Append(chain, present)

\* last() in place of pop(): the Vec keeps its last element.
VecRestKeep(v) == v

\* Vec::pop: the last element, None when empty.
VecPop(v) == IF Len(v) = 0 THEN None ELSE v[Len(v)]
VecRest(v) == IF Len(v) = 0 THEN v ELSE SubSeq(v, 1, Len(v) - 1)

\* pop_back() in place of pop_front(): the last element is handed out.
PopBack(l) == IF Len(l) = 0 THEN None ELSE l[Len(l)]

\* LinkedList::pop_front: the first element, None when empty.
PopFront(l) == IF Len(l) = 0 THEN None ELSE Head(l)
\* front() in place of pop_front(): the list keeps its first element.
PopFrontKeep(l) == l

PopFrontRest(l) == IF Len(l) = 0 THEN l ELSE Tail(l)

Init ==
    /\ BAG_SIZE \in 0..MaxBag
    /\ \E w \in 1..MaxServants : servants = 1..w
    /\ large_bag \in Shuffles(BAG_SIZE)
    /\ bag_lock = None
    /\ chain_of_presents = <<>>
    /\ chain_writer = None
    /\ chain_readers = {}
    /\ thank_you_counter = 0
    /\ current_action = [s \in servants |-> "AddPresentToChain"]
    /\ maybe_present = [s \in servants |-> None]
    /\ is_empty = [s \in servants |-> FALSE]
    /\ pc = [s \in 1..MaxServants |->
                IF s \in servants THEN "start" ELSE "unspawned"]
    /\ main_pc = "join"
    /\ final_counter = 0
    /\ added = [p \in Presents |-> 0]
    /\ thanked = [p \in Presents |-> 0]

\* Positions from which control reaches the head of the loop.
LoopEntries == {"start", "add_end", "add_continue", "card_end", "card_continue"}

\* The head of the loop with the rotation skipped after a continue.
LoopHeadToggleOnSuccess(s) ==
    /\ pc[s] \in LoopEntries
    /\ LET next == IF pc[s] \in {"add_continue", "card_continue"}
                   THEN current_action[s] ELSE NextAction(current_action[s])
       IN /\ current_action' = [current_action EXCEPT ![s] = next]
          /\ pc' = [pc EXCEPT ![s] =
                      IF next = "AddPresentToChain"
                      THEN "add_lock_bag" ELSE "card_write_chain"]
    /\ chain_writer' = IF chain_writer = s THEN None ELSE chain_writer
    /\ is_empty' = [is_empty EXCEPT ![s] = FALSE]
    /\ UNCHANGED <<BAG_SIZE, servants, large_bag, bag_lock, chain_of_presents,
                   chain_readers, thank_you_counter, maybe_present, main_pc,
                   final_counter, added, thanked>>

\* The head of the loop entering the arm of the action it holds, rotating
\* afterwards.
LoopHeadDispatchFirst(s) ==
    /\ pc[s] \in LoopEntries
    /\ current_action' = [current_action EXCEPT ![s] = NextAction(@)]
    /\ pc' = [pc EXCEPT ![s] =
                IF current_action[s] = "AddPresentToChain"
                THEN "add_lock_bag" ELSE "card_write_chain"]
    /\ chain_writer' = IF chain_writer = s THEN None ELSE chain_writer
    /\ is_empty' = [is_empty EXCEPT ![s] = FALSE]
    /\ UNCHANGED <<BAG_SIZE, servants, large_bag, bag_lock, chain_of_presents,
                   chain_readers, thank_you_counter, maybe_present, main_pc,
                   final_counter, added, thanked>>

\* Lines 55-63: rotate current_action and enter its arm.  Leaving the
\* WriteThankYouCard arm drops its chain write guard.
LoopHead(s) ==
    /\ pc[s] \in LoopEntries
    /\ current_action' = [current_action EXCEPT ![s] = NextAction(@)]
    /\ pc' = [pc EXCEPT ![s] =
                IF NextAction(current_action[s]) = "AddPresentToChain"
                THEN "add_lock_bag" ELSE "card_write_chain"]
    /\ chain_writer' = IF chain_writer = s THEN None ELSE chain_writer
    /\ is_empty' = [is_empty EXCEPT ![s] = FALSE]
    /\ UNCHANGED <<BAG_SIZE, servants, large_bag, bag_lock, chain_of_presents,
                   chain_readers, thank_you_counter, maybe_present, main_pc,
                   final_counter, added, thanked>>

\* Line 65: local_bag.lock()
AddLockBag(s) ==
    /\ pc[s] = "add_lock_bag"
    /\ bag_lock = None
    /\ bag_lock' = s
    /\ pc' = [pc EXCEPT ![s] = "add_pop"]
    /\ UNCHANGED <<BAG_SIZE, servants, large_bag, chain_of_presents,
                   chain_writer, chain_readers, thank_you_counter,
                   current_action, maybe_present, is_empty, main_pc,
                   final_counter, added, thanked>>

\* Line 66: bag.pop()
AddPop(s) ==
    /\ pc[s] = "add_pop"
    /\ maybe_present' = [maybe_present EXCEPT ![s] = VecPop(large_bag)]
    /\ large_bag' = VecRest(large_bag)
    /\ pc' = [pc EXCEPT ![s] = "add_drop_bag"]
    /\ UNCHANGED <<BAG_SIZE, servants, bag_lock, chain_of_presents,
                   chain_writer, chain_readers, thank_you_counter,
                   current_action, is_empty, main_pc, final_counter, added,
                   thanked>>

\* Lines 67-71 without the drop(bag).
AddKeepBag(s) ==
    /\ pc[s] = "add_drop_bag"
    /\ pc' = [pc EXCEPT ![s] =
                IF maybe_present[s] # None THEN "add_write_chain"
                ELSE "add_read_chain"]
    /\ UNCHANGED <<BAG_SIZE, servants, large_bag, bag_lock, chain_of_presents,
                   chain_writer, chain_readers, thank_you_counter,
                   current_action, maybe_present, is_empty, main_pc,
                   final_counter, added, thanked>>

\* Lines 67-71: drop(bag), then branch on maybe_present
AddDropBag(s) ==
    /\ pc[s] = "add_drop_bag"
    /\ bag_lock' = None
    /\ pc' = [pc EXCEPT ![s] =
                IF maybe_present[s] # None THEN "add_write_chain"
                ELSE "add_read_chain"]
    /\ UNCHANGED <<BAG_SIZE, servants, large_bag, chain_of_presents,
                   chain_writer, chain_readers, thank_you_counter,
                   current_action, maybe_present, is_empty, main_pc,
                   final_counter, added, thanked>>

\* Line 74: local_chain.read()
AddReadChain(s) ==
    /\ pc[s] = "add_read_chain"
    /\ chain_writer = None
    /\ chain_readers' = chain_readers \cup {s}
    /\ pc' = [pc EXCEPT ![s] = "add_is_empty"]
    /\ UNCHANGED <<BAG_SIZE, servants, large_bag, bag_lock, chain_of_presents,
                   chain_writer, thank_you_counter, current_action,
                   maybe_present, is_empty, main_pc, final_counter, added,
                   thanked>>

\* Line 75: chain.is_empty()
AddIsEmpty(s) ==
    /\ pc[s] = "add_is_empty"
    /\ is_empty' = [is_empty EXCEPT ![s] = (Len(chain_of_presents) = 0)]
    /\ pc' = [pc EXCEPT ![s] = "add_drop_read"]
    /\ UNCHANGED <<BAG_SIZE, servants, large_bag, bag_lock, chain_of_presents,
                   chain_writer, chain_readers, thank_you_counter,
                   current_action, maybe_present, main_pc, final_counter,
                   added, thanked>>

\* Lines 76-82 returning whatever is_empty says.
AddDropReadAlwaysReturn(s) ==
    /\ pc[s] = "add_drop_read"
    /\ chain_readers' = chain_readers \ {s}
    /\ pc' = [pc EXCEPT ![s] = "done"]
    /\ UNCHANGED <<BAG_SIZE, servants, large_bag, bag_lock, chain_of_presents,
                   chain_writer, thank_you_counter, current_action,
                   maybe_present, is_empty, main_pc, final_counter, added,
                   thanked>>

\* Lines 76-82: drop(chain), then return or continue
AddDropRead(s) ==
    /\ pc[s] = "add_drop_read"
    /\ chain_readers' = chain_readers \ {s}
    /\ pc' = [pc EXCEPT ![s] = IF is_empty[s] THEN "done" ELSE "add_continue"]
    /\ UNCHANGED <<BAG_SIZE, servants, large_bag, bag_lock, chain_of_presents,
                   chain_writer, thank_you_counter, current_action,
                   maybe_present, is_empty, main_pc, final_counter, added,
                   thanked>>

\* Line 85: local_chain.write()
AddWriteChain(s) ==
    /\ pc[s] = "add_write_chain"
    /\ chain_writer = None
    /\ chain_readers = {}
    /\ chain_writer' = s
    /\ pc' = [pc EXCEPT ![s] = "add_insert"]
    /\ UNCHANGED <<BAG_SIZE, servants, large_bag, bag_lock, chain_of_presents,
                   chain_readers, thank_you_counter, current_action,
                   maybe_present, is_empty, main_pc, final_counter, added,
                   thanked>>

\* Line 87: add_present_to_chain(&mut chain, present_to_add)
AddInsert(s) ==
    /\ pc[s] = "add_insert"
    /\ chain_of_presents' =
           add_present_to_chain(chain_of_presents, maybe_present[s])
    /\ added' = [added EXCEPT ![maybe_present[s]] = @ + 1]
    /\ maybe_present' = [maybe_present EXCEPT ![s] = None]
    /\ pc' = [pc EXCEPT ![s] = "add_drop_chain"]
    /\ UNCHANGED <<BAG_SIZE, servants, large_bag, bag_lock, chain_writer,
                   chain_readers, thank_you_counter, current_action, is_empty,
                   main_pc, final_counter, thanked>>

\* Line 88: drop(chain)
AddDropChain(s) ==
    /\ pc[s] = "add_drop_chain"
    /\ chain_writer' = None
    /\ pc' = [pc EXCEPT ![s] = "add_end"]
    /\ UNCHANGED <<BAG_SIZE, servants, large_bag, bag_lock, chain_of_presents,
                   chain_readers, thank_you_counter, current_action,
                   maybe_present, is_empty, main_pc, final_counter, added,
                   thanked>>

\* Line 91: local_chain.write()
CardWriteChain(s) ==
    /\ pc[s] = "card_write_chain"
    /\ chain_writer = None
    /\ chain_readers = {}
    /\ chain_writer' = s
    /\ pc' = [pc EXCEPT ![s] = "card_pop_front"]
    /\ UNCHANGED <<BAG_SIZE, servants, large_bag, bag_lock, chain_of_presents,
                   chain_readers, thank_you_counter, current_action,
                   maybe_present, is_empty, main_pc, final_counter, added,
                   thanked>>

\* Lines 92-94 with the fetch_add of line 109 moved before the test of
\* line 94.
CardPopFrontCounting(s) ==
    /\ pc[s] = "card_pop_front"
    /\ maybe_present' = [maybe_present EXCEPT ![s] = PopFront(chain_of_presents)]
    /\ chain_of_presents' = PopFrontRest(chain_of_presents)
    /\ thank_you_counter' = thank_you_counter + 1
    /\ pc' = [pc EXCEPT ![s] =
                IF PopFront(chain_of_presents) = None THEN "card_lock_bag"
                ELSE "card_end"]
    /\ thanked' = IF PopFront(chain_of_presents) = None THEN thanked
                  ELSE [thanked EXCEPT ![PopFront(chain_of_presents)] = @ + 1]
    /\ UNCHANGED <<BAG_SIZE, servants, large_bag, bag_lock, chain_writer,
                   chain_readers, current_action, is_empty, main_pc,
                   final_counter, added>>

\* Lines 92-94: chain.pop_front(), then branch on maybe_present
CardPopFront(s) ==
    /\ pc[s] = "card_pop_front"
    /\ maybe_present' = [maybe_present EXCEPT ![s] = PopFront(chain_of_presents)]
    /\ chain_of_presents' = PopFrontRest(chain_of_presents)
    /\ pc' = [pc EXCEPT ![s] =
                IF PopFront(chain_of_presents) = None THEN "card_lock_bag"
                ELSE "card_fetch_add"]
    /\ UNCHANGED <<BAG_SIZE, servants, large_bag, bag_lock, chain_writer,
                   chain_readers, thank_you_counter, current_action, is_empty,
                   main_pc, final_counter, added, thanked>>

\* Line 97 preceded by a drop of the chain write guard.
CardLockBagDropChain(s) ==
    /\ pc[s] = "card_lock_bag"
    /\ bag_lock = None
    /\ bag_lock' = s
    /\ chain_writer' = None
    /\ pc' = [pc EXCEPT ![s] = "card_is_empty"]
    /\ UNCHANGED <<BAG_SIZE, servants, large_bag, chain_of_presents,
                   chain_readers, thank_you_counter, current_action,
                   maybe_present, is_empty, main_pc, final_counter, added,
                   thanked>>

\* Line 97: local_bag.lock(), the chain write guard still alive
CardLockBag(s) ==
    /\ pc[s] = "card_lock_bag"
    /\ bag_lock = None
    /\ bag_lock' = s
    /\ pc' = [pc EXCEPT ![s] = "card_is_empty"]
    /\ UNCHANGED <<BAG_SIZE, servants, large_bag, chain_of_presents,
                   chain_writer, chain_readers, thank_you_counter,
                   current_action, maybe_present, is_empty, main_pc,
                   final_counter, added, thanked>>

\* Line 98 asking the chain, not the bag, whether it is empty.
CardIsEmptyOfChain(s) ==
    /\ pc[s] = "card_is_empty"
    /\ is_empty' = [is_empty EXCEPT ![s] = (Len(chain_of_presents) = 0)]
    /\ pc' = [pc EXCEPT ![s] = "card_drop_bag"]
    /\ UNCHANGED <<BAG_SIZE, servants, large_bag, bag_lock, chain_of_presents,
                   chain_writer, chain_readers, thank_you_counter,
                   current_action, maybe_present, main_pc, final_counter,
                   added, thanked>>

\* Line 98: bag.is_empty()
CardIsEmpty(s) ==
    /\ pc[s] = "card_is_empty"
    /\ is_empty' = [is_empty EXCEPT ![s] = (Len(large_bag) = 0)]
    /\ pc' = [pc EXCEPT ![s] = "card_drop_bag"]
    /\ UNCHANGED <<BAG_SIZE, servants, large_bag, bag_lock, chain_of_presents,
                   chain_writer, chain_readers, thank_you_counter,
                   current_action, maybe_present, main_pc, final_counter,
                   added, thanked>>

\* Lines 99-105 with the test of line 101 inverted.
CardDropBagInverted(s) ==
    /\ pc[s] = "card_drop_bag"
    /\ bag_lock' = None
    /\ pc' = [pc EXCEPT ![s] =
                IF is_empty[s] THEN "card_continue" ELSE "card_return"]
    /\ UNCHANGED <<BAG_SIZE, servants, large_bag, chain_of_presents,
                   chain_writer, chain_readers, thank_you_counter,
                   current_action, maybe_present, is_empty, main_pc,
                   final_counter, added, thanked>>

\* Lines 99-105: drop(bag), then return or continue
CardDropBag(s) ==
    /\ pc[s] = "card_drop_bag"
    /\ bag_lock' = None
    /\ pc' = [pc EXCEPT ![s] =
                IF is_empty[s] THEN "card_return" ELSE "card_continue"]
    /\ UNCHANGED <<BAG_SIZE, servants, large_bag, chain_of_presents,
                   chain_writer, chain_readers, thank_you_counter,
                   current_action, maybe_present, is_empty, main_pc,
                   final_counter, added, thanked>>

\* Line 102: return, which drops the chain write guard
CardReturn(s) ==
    /\ pc[s] = "card_return"
    /\ chain_writer' = None
    /\ pc' = [pc EXCEPT ![s] = "done"]
    /\ UNCHANGED <<BAG_SIZE, servants, large_bag, bag_lock, chain_of_presents,
                   chain_readers, thank_you_counter, current_action,
                   maybe_present, is_empty, main_pc, final_counter, added,
                   thanked>>

\* Line 109: local_counter.fetch_add(1), the card for the present popped
CardFetchAdd(s) ==
    /\ pc[s] = "card_fetch_add"
    /\ thank_you_counter' = thank_you_counter + 1
    /\ thanked' = [thanked EXCEPT ![maybe_present[s]] = @ + 1]
    /\ maybe_present' = [maybe_present EXCEPT ![s] = None]
    /\ pc' = [pc EXCEPT ![s] = "card_end"]
    /\ UNCHANGED <<BAG_SIZE, servants, large_bag, bag_lock, chain_of_presents,
                   chain_writer, chain_readers, current_action, is_empty,
                   main_pc, final_counter, added>>

\* Lines 131-135: join every servant, then load the counter
Join ==
    /\ main_pc = "join"
    /\ \A s \in servants : pc[s] = "done"
    /\ final_counter' = thank_you_counter
    /\ main_pc' = "reported"
    /\ UNCHANGED <<BAG_SIZE, servants, large_bag, bag_lock, chain_of_presents,
                   chain_writer, chain_readers, thank_you_counter,
                   current_action, maybe_present, is_empty, pc, added,
                   thanked>>

\* One step of the closure run by thread s.
Servant(s) ==
    \/ LoopHead(s)
    \/ AddLockBag(s)
    \/ AddPop(s)
    \/ AddDropBag(s)
    \/ AddReadChain(s)
    \/ AddIsEmpty(s)
    \/ AddDropRead(s)
    \/ AddWriteChain(s)
    \/ AddInsert(s)
    \/ AddDropChain(s)
    \/ CardWriteChain(s)
    \/ CardPopFront(s)
    \/ CardLockBag(s)
    \/ CardIsEmpty(s)
    \/ CardDropBag(s)
    \/ CardReturn(s)
    \/ CardFetchAdd(s)

Next ==
    \/ \E s \in 1..MaxServants : Servant(s)
    \/ Join

Spec == Init /\ [][Next]_vars

\* The scheduler runs every thread that can take a step.
FairSpec ==
    /\ Spec
    /\ \A s \in 1..MaxServants : WF_vars(Servant(s))
    /\ WF_vars(Join)

\* add_present_to_chain exercised alone: one caller holds the chain's write
\* guard and hands it presents 1..MaxItem one after another, in any order,
\* starting from the empty chain.
InsertInit ==
    /\ BAG_SIZE = MaxItem
    /\ servants = {1}
    /\ large_bag = <<>>
    /\ bag_lock = None
    /\ chain_of_presents = <<>>
    /\ chain_writer = 1
    /\ chain_readers = {}
    /\ thank_you_counter = 0
    /\ current_action = [s \in servants |-> "AddPresentToChain"]
    /\ maybe_present \in [servants -> 1..MaxItem]
    /\ is_empty = [s \in servants |-> FALSE]
    /\ pc = [s \in 1..MaxServants |->
                IF s \in servants THEN "add_insert" ELSE "unspawned"]
    /\ main_pc = "join"
    /\ final_counter = 0
    /\ added = [p \in Presents |-> 0]
    /\ thanked = [p \in Presents |-> 0]

\* Lines 69-70, 87: the caller binds the next present_to_add, one that is not
\* on the chain yet, and is about to call add_present_to_chain again.
InsertNextPresent(s, present) ==
    /\ pc[s] = "add_drop_chain"
    /\ added[present] = 0
    /\ maybe_present' = [maybe_present EXCEPT ![s] = present]
    /\ pc' = [pc EXCEPT ![s] = "add_insert"]
    /\ UNCHANGED <<BAG_SIZE, servants, large_bag, bag_lock, chain_of_presents,
                   chain_writer, chain_readers, thank_you_counter,
                   current_action, is_empty, main_pc, final_counter, added,
                   thanked>>

InsertNext ==
    \/ \E s \in 1..MaxServants : AddInsert(s)
    \/ \E s \in 1..MaxServants : \E present \in 1..MaxItem :
          InsertNextPresent(s, present)

InsertSpec == InsertInit /\ [][InsertNext]_vars

(***************************************************************************)
(* Properties                                                              *)
(***************************************************************************)

Terminated == \A s \in servants : pc[s] = "done"
SomeExited == \E s \in servants : pc[s] = "done"

\* Number of positions of sequence q holding p.
Occurrences(q, p) == Cardinality({i \in 1..Len(q) : q[i] = p})

\* Servants holding present p in maybe_present.
Holders(p) == {s \in servants : maybe_present[s] = p}

\* Presents held by a servant: popped from the bag and not yet on the chain,
\* or popped from the chain and not yet counted.
InHands == Cardinality({s \in servants : maybe_present[s] # None})

HoldsBag(s) == bag_lock = s
HoldsChain(s) == chain_writer = s \/ s \in chain_readers

\* C1: once every servant has returned, the bag and the chain are empty and
\* the counter equals BAG_SIZE; main then reports that value.
C1_FinalState ==
    /\ Terminated =>
          /\ Len(large_bag) = 0
          /\ Len(chain_of_presents) = 0
          /\ thank_you_counter = BAG_SIZE
    /\ main_pc = "reported" => final_counter = BAG_SIZE

C1_Witness ==
    /\ main_pc = "reported"
    /\ BAG_SIZE >= 2
    /\ Cardinality(servants) >= 2

\* C2: under weak fairness of every servant, all servants eventually return.
C2_Termination == <>Terminated

C2_Witness ==
    /\ Terminated
    /\ main_pc = "join"
    /\ BAG_SIZE >= 2
    /\ Cardinality(servants) >= 2

\* C3 as claimed: in every reachable state the sizes of the bag and of the
\* chain and the counter add up to BAG_SIZE.
C3_Original ==
    Len(large_bag) + Len(chain_of_presents) + thank_you_counter = BAG_SIZE

\* C3 amended: the sizes of the bag and of the chain, the counter and the
\* number of presents held in a servant's hand add up to BAG_SIZE, so the
\* claimed equation holds whenever no servant holds a present.
C3_Conservation ==
    /\ Len(large_bag) + Len(chain_of_presents) + thank_you_counter + InHands
          = BAG_SIZE
    /\ InHands = 0 => C3_Original

C3_Witness ==
    /\ \E s \in servants : pc[s] = "add_write_chain" /\ maybe_present[s] # None
    /\ \E s \in servants : pc[s] = "card_fetch_add"
    /\ Len(large_bag) > 0

\* C4: every present is in exactly one place (the bag, the chain, one
\* servant's hand, or carded), is put on the chain at most once and carded
\* at most once, and once all servants have returned every present has been
\* put on the chain once and carded once.
C4_NoDuplicationNoLoss ==
    /\ \A p \in Presents :
          /\ Occurrences(large_bag, p) + Occurrences(chain_of_presents, p)
                + Cardinality(Holders(p)) + thanked[p] = 1
          /\ added[p] <= 1
          /\ thanked[p] <= 1
          /\ thanked[p] <= added[p]
    /\ Terminated => \A p \in Presents : added[p] = 1 /\ thanked[p] = 1

C4_Witness ==
    /\ Terminated
    /\ BAG_SIZE >= 2
    /\ \A p \in Presents : added[p] = 1 /\ thanked[p] = 1

\* C5: whenever no servant holds the chain's write guard, the chain is in
\* strictly ascending order.
C5_Sorted ==
    chain_writer = None =>
        \A i \in 1..(Len(chain_of_presents) - 1) :
            chain_of_presents[i] < chain_of_presents[i + 1]

C5_Witness ==
    /\ chain_writer = None
    /\ Len(chain_of_presents) >= 2
    /\ Len(large_bag) > 0
    /\ large_bag[Len(large_bag)] < chain_of_presents[1]

\* C6 as claimed: whenever some servant has returned, the counter equals
\* BAG_SIZE and no present is left in the bag, on the chain or in a hand.
C6_Original ==
    SomeExited =>
        /\ thank_you_counter = BAG_SIZE
        /\ Len(large_bag) = 0
        /\ Len(chain_of_presents) = 0
        /\ InHands = 0

\* C6 amended: whenever some servant has returned, the bag is empty, no
\* returned servant holds a present, and while the counter is below
\* BAG_SIZE some servant is still running.
C6_ExitedMeansBagEmpty ==
    SomeExited =>
        /\ Len(large_bag) = 0
        /\ \A s \in servants : pc[s] = "done" => maybe_present[s] = None
        /\ thank_you_counter < BAG_SIZE => \E s \in servants : pc[s] # "done"

C6_Witness ==
    /\ SomeExited
    /\ thank_you_counter = 0
    /\ InHands > 0

\* C7 as claimed: no servant holds the bag lock and a chain guard at once.
C7_Original ==
    \A s \in servants : ~(HoldsBag(s) /\ HoldsChain(s))

\* C7 amended: a servant holds the bag lock together with a chain guard
\* only in the WriteThankYouCard arm, where it checks the bag under the
\* chain's write guard; in the AddPresentToChain arm it never holds both,
\* and no servant holds the bag lock while it waits for the chain.
C7_LockDiscipline ==
    \A s \in servants :
        /\ HoldsBag(s) /\ HoldsChain(s) =>
              /\ current_action[s] = "WriteThankYouCard"
              /\ chain_writer = s
              /\ pc[s] \in {"card_is_empty", "card_drop_bag"}
        /\ pc[s] \in {"add_read_chain", "add_write_chain", "card_write_chain"}
              => ~HoldsBag(s) /\ ~HoldsChain(s)

C7_Witness ==
    \E s \in servants :
        /\ HoldsBag(s)
        /\ chain_writer = s
        /\ \E t \in servants : pc[t] = "add_write_chain"

\* C8 as claimed: after a step that ends in continue the servant enters the
\* same arm again.
C8_Original ==
    [][\A s \in servants :
          /\ pc[s] = "add_continue" /\ pc'[s] # pc[s]
                => pc'[s] = "add_lock_bag"
          /\ pc[s] = "card_continue" /\ pc'[s] # pc[s]
                => pc'[s] = "card_write_chain"]_vars

\* C8 amended: after a step that ends in continue the servant enters the
\* other arm: WriteThankYouCard after an AddPresentToChain step that found
\* the bag empty, AddPresentToChain after a WriteThankYouCard step that
\* found the chain empty.
C8_ContinueToggles ==
    [][\A s \in servants :
          /\ pc[s] = "add_continue" /\ pc'[s] # pc[s]
                => /\ pc'[s] = "card_write_chain"
                   /\ current_action'[s] = "WriteThankYouCard"
          /\ pc[s] = "card_continue" /\ pc'[s] # pc[s]
                => /\ pc'[s] = "add_lock_bag"
                   /\ current_action'[s] = "AddPresentToChain"]_vars

C8_Witness ==
    \E s \in servants :
        /\ pc[s] = "add_continue"
        /\ Len(large_bag) = 0
        /\ ~is_empty[s]

\* C9 as claimed: the first arm a servant enters is AddPresentToChain.
C9_Original ==
    [][\A s \in servants :
          pc[s] = "start" /\ pc'[s] # pc[s] => pc'[s] = "add_lock_bag"]_vars

\* C9 amended: current_action starts as AddPresentToChain and is rotated
\* before it is first used, so the first arm a servant enters is
\* WriteThankYouCard.
C9_FirstStepIsCard ==
    [][\A s \in servants :
          pc[s] = "start" /\ pc'[s] # pc[s]
              => /\ current_action[s] = "AddPresentToChain"
                 /\ current_action'[s] = "WriteThankYouCard"
                 /\ pc'[s] = "card_write_chain"]_vars

C9_Witness ==
    /\ BAG_SIZE > 0
    /\ Len(large_bag) = BAG_SIZE
    /\ \A s \in servants : pc[s] \notin LoopEntries
    /\ \E s \in servants : pc[s] = "card_pop_front"

\* C10: after a step that put a present on the chain the servant enters the
\* WriteThankYouCard arm, and after a step that counted a card it enters the
\* AddPresentToChain arm.
C10_ToggleAfterCompletedStep ==
    [][\A s \in servants :
          /\ pc[s] = "add_end" /\ pc'[s] # pc[s]
                => /\ pc'[s] = "card_write_chain"
                   /\ current_action'[s] = "WriteThankYouCard"
          /\ pc[s] = "card_end" /\ pc'[s] # pc[s]
                => /\ pc'[s] = "add_lock_bag"
                   /\ current_action'[s] = "AddPresentToChain"]_vars

C10_Witness ==
    /\ Cardinality(servants) = 1
    /\ \E s \in servants :
          /\ pc[s] = "add_lock_bag"
          /\ thank_you_counter = 1
          /\ Len(large_bag) > 0

\* C11: a servant returns only from the end of a step in which it held no
\* present, saw its own container empty (the bag popped None, or the chain
\* popped None) and then saw the other container empty; the recorded
\* is_empty is what the container was while the servant held its lock.
C11_ExitRule ==
    /\ [](\A s \in servants :
            /\ pc[s] \in {"add_read_chain", "add_is_empty", "add_drop_read"}
                  => maybe_present[s] = None /\ Len(large_bag) = 0
            /\ pc[s] \in {"card_lock_bag", "card_is_empty", "card_drop_bag",
                          "card_return", "card_continue"}
                  => maybe_present[s] = None /\ Len(chain_of_presents) = 0
            /\ pc[s] = "add_drop_read"
                  => is_empty[s] = (Len(chain_of_presents) = 0)
            /\ pc[s] = "card_drop_bag"
                  => is_empty[s] = (Len(large_bag) = 0)
            /\ pc[s] = "card_return" => is_empty[s])
    /\ [][\A s \in servants :
            pc[s] # "done" /\ pc'[s] = "done"
                => /\ pc[s] \in {"add_drop_read", "card_return"}
                   /\ is_empty[s]
                   /\ maybe_present[s] = None]_vars

C11_Witness ==
    \E s, t \in servants :
        /\ pc[s] = "done"
        /\ pc[t] = "card_return"
        /\ BAG_SIZE >= 2

\* C12: with an empty bag no servant ever leaves the WriteThankYouCard arm
\* of its first step, nothing is taken, put on the chain or carded, and the
\* counter stays 0.
C12_EmptyWorkload ==
    BAG_SIZE = 0 =>
        /\ thank_you_counter = 0
        /\ Len(chain_of_presents) = 0
        /\ \A s \in servants :
              /\ maybe_present[s] = None
              /\ pc[s] \in {"start", "card_write_chain", "card_pop_front",
                            "card_lock_bag", "card_is_empty", "card_drop_bag",
                            "card_return", "done"}

C12_Witness ==
    /\ BAG_SIZE = 0
    /\ Terminated
    /\ Cardinality(servants) >= 2
    /\ main_pc = "join"

\* C13: no step makes the bag longer; the bag changes only in a bag.pop
\* that hands a present to the servant, which removes exactly that last
\* element; an empty bag stays empty.
C13_BagOnlyShrinks ==
    [][/\ Len(large_bag') <= Len(large_bag)
       /\ Len(large_bag) = 0 => Len(large_bag') = 0
       /\ \A s \in servants :
             pc[s] = "add_pop" /\ pc'[s] # pc[s] /\ maybe_present'[s] # None
                 => /\ Len(large_bag') = Len(large_bag) - 1
                    /\ maybe_present'[s] = large_bag[Len(large_bag)]
                    /\ \A i \in 1..Len(large_bag') :
                          large_bag'[i] = large_bag[i]
       /\ large_bag' # large_bag
             => \E s \in servants :
                   /\ pc[s] = "add_pop"
                   /\ pc'[s] = "add_drop_bag"
                   /\ maybe_present'[s] # None]_vars

C13_Witness ==
    /\ BAG_SIZE >= 2
    /\ Len(large_bag) = 0
    /\ \E s \in servants : pc[s] = "add_drop_bag" /\ maybe_present[s] # None

\* C14: the counter starts at 0, stays within 0..BAG_SIZE, and changes only
\* by +1 in the fetch_add of a WriteThankYouCard step whose pop_front
\* returned a present.
C14_Counter ==
    /\ thank_you_counter = 0
    /\ [](/\ thank_you_counter >= 0
          /\ thank_you_counter <= BAG_SIZE
          /\ \A s \in servants :
                pc[s] = "card_fetch_add" => maybe_present[s] # None)
    /\ [][/\ thank_you_counter' >= thank_you_counter
          /\ thank_you_counter' # thank_you_counter
                => /\ thank_you_counter' = thank_you_counter + 1
                   /\ \E s \in servants :
                         /\ pc[s] = "card_fetch_add"
                         /\ pc'[s] = "card_end"
                         /\ current_action[s] = "WriteThankYouCard"
                         /\ maybe_present[s] # None
                         /\ maybe_present[s] \notin
                               {chain_of_presents[i] :
                                   i \in 1..Len(chain_of_presents)}]_vars

C14_Witness ==
    /\ thank_you_counter = BAG_SIZE
    /\ BAG_SIZE >= 2
    /\ \E s \in servants : pc[s] = "card_end"

\* C15: pop_front on a non-empty chain hands out its first element, which
\* is smaller than every element left, and leaves the other elements in
\* their order; on an empty chain it hands out None and leaves it empty.
C15_PopFrontTakesSmallest ==
    [][\A s \in servants :
          pc[s] = "card_pop_front" /\ pc'[s] # pc[s]
              => IF Len(chain_of_presents) = 0
                 THEN /\ maybe_present'[s] = None
                      /\ Len(chain_of_presents') = 0
                 ELSE /\ maybe_present'[s] = chain_of_presents[1]
                      /\ Len(chain_of_presents') = Len(chain_of_presents) - 1
                      /\ \A i \in 1..Len(chain_of_presents') :
                            /\ chain_of_presents'[i] = chain_of_presents[i + 1]
                            /\ maybe_present'[s] < chain_of_presents'[i]]_vars

C15_Witness ==
    \E s \in servants :
        /\ pc[s] = "card_fetch_add"
        /\ Len(chain_of_presents) >= 2
        /\ maybe_present[s] < chain_of_presents[1]

\* The set of items of a sequence.
Items(q) == {q[i] : i \in 1..Len(q)}

\* C16: add_present_to_chain on a sorted chain of distinct presents and a
\* present not on it yields the chain with the present spliced right before
\* the first greater item (at the end if there is none): one longer, the
\* old items in their order, strictly ascending, the old items plus the
\* present; inserting 5, 1, 3 from empty gives <<5>>, <<1, 5>>, <<1, 3, 5>>.
C16_InsertSorted ==
    /\ add_present_to_chain(<<>>, 5) = <<5>>
    /\ add_present_to_chain(<<5>>, 1) = <<1, 5>>
    /\ add_present_to_chain(<<1, 5>>, 3) = <<1, 3, 5>>
    /\ [][\A s \in servants :
            pc[s] = "add_insert" /\ pc'[s] # pc[s]
                => LET old == chain_of_presents
                       new == chain_of_presents'
                       x   == maybe_present[s]
                   IN /\ Len(new) = Len(old) + 1
                      /\ Items(new) = Items(old) \cup {x}
                      /\ \A i \in 1..(Len(new) - 1) : new[i] < new[i + 1]
                      /\ \E k \in 1..Len(new) :
                            /\ new[k] = x
                            /\ \A i \in 1..(k - 1) :
                                  new[i] = old[i] /\ old[i] <= x
                            /\ \A i \in (k + 1)..Len(new) : new[i] = old[i - 1]
                            /\ k <= Len(old) => old[k] > x]_vars

C16_Witness ==
    /\ chain_of_presents = <<1, 3, 5>>
    /\ \E s \in servants : pc[s] = "add_drop_chain" /\ maybe_present[s] = None

\* Servant s is at a lock acquisition that cannot proceed now.
WaitsBag(s) == pc[s] \in {"add_lock_bag", "card_lock_bag"} /\ bag_lock # None
WaitsChain(s) ==
    \/ pc[s] \in {"add_write_chain", "card_write_chain"}
          /\ (chain_writer # None \/ chain_readers # {})
    \/ pc[s] = "add_read_chain" /\ chain_writer # None

\* C17: a servant that has not returned can take a step, or waits for a
\* lock whose holder can take a step, or waits for the chain whose holder
\* waits for the bag whose holder can take a step; no servant holding the
\* bag waits for anything, so no two servants wait for each other.
C17_NoDeadlock ==
    /\ \A s \in servants :
          pc[s] # "done" =>
              \/ ENABLED Servant(s)
              \/ \E t \in servants \ {s} :
                    /\ (WaitsBag(s) /\ HoldsBag(t))
                          \/ (WaitsChain(s) /\ HoldsChain(t))
                    /\ \/ ENABLED Servant(t)
                       \/ \E u \in servants \ {s, t} :
                             WaitsBag(t) /\ HoldsBag(u) /\ ENABLED Servant(u)
    /\ \A s \in servants : HoldsBag(s) => ENABLED Servant(s)
    /\ ~ \E s, t \in servants :
            /\ HoldsBag(s) /\ WaitsChain(s)
            /\ HoldsChain(t) /\ WaitsBag(t)

C17_Witness ==
    \E s, t, u \in servants :
        /\ pc[s] = "card_lock_bag"
        /\ bag_lock = t
        /\ t # s
        /\ WaitsChain(u)

\* Servants holding a present popped from the bag and not yet on the chain.
InFlight ==
    {s \in servants :
        maybe_present[s] # None /\ current_action[s] = "AddPresentToChain"}

\* Servants holding a present popped from the chain and not yet counted.
Uncounted ==
    {s \in servants :
        maybe_present[s] # None /\ current_action[s] = "WriteThankYouCard"}

\* C18 as claimed: in every reachable state the sizes of the bag and of the
\* chain, the number of presents in flight to the chain and the counter add
\* up to BAG_SIZE.
C18_Original ==
    Len(large_bag) + Len(chain_of_presents) + Cardinality(InFlight)
        + thank_you_counter = BAG_SIZE

\* C18 amended: the claimed sum is BAG_SIZE except while one servant is
\* between its pop_front and its fetch_add, where it is BAG_SIZE - 1; that
\* servant holds the chain's write guard, and there is at most one.
C18_ExtendedConservation ==
    /\ Len(large_bag) + Len(chain_of_presents) + Cardinality(InFlight)
          + thank_you_counter + Cardinality(Uncounted) = BAG_SIZE
    /\ Cardinality(Uncounted) <= 1
    /\ \A s \in Uncounted : chain_writer = s /\ pc[s] = "card_fetch_add"
    /\ \A s \in InFlight :
          pc[s] \in {"add_drop_bag", "add_write_chain", "add_insert"}

C18_Witness ==
    /\ Len(large_bag) = 0
    /\ Len(chain_of_presents) >= 1
    /\ Uncounted # {}
    /\ InFlight # {}

\* C19: the length of the chain plus the number of presents in flight to it
\* never exceeds the number of servants.
C19_BoundedBacklog ==
    Len(chain_of_presents) + Cardinality(InFlight) <= Cardinality(servants)

C19_Witness ==
    /\ Len(chain_of_presents) + Cardinality(InFlight) = Cardinality(servants)
    /\ Len(chain_of_presents) >= 2
    /\ InFlight # {}

\* C20: in the step in which a servant's second is_empty() returns true,
\* the bag and the chain are both empty, in the AddPresentToChain arm as in
\* the WriteThankYouCard arm.
C20_ConsistentSnapshot ==
    [][\A s \in servants :
          /\ pc[s] = "add_is_empty" /\ pc'[s] = "add_drop_read" /\ is_empty'[s]
                => /\ Len(large_bag) = 0 /\ Len(chain_of_presents) = 0
                   /\ Len(large_bag') = 0 /\ Len(chain_of_presents') = 0
          /\ pc[s] = "card_is_empty" /\ pc'[s] = "card_drop_bag" /\ is_empty'[s]
                => /\ Len(large_bag) = 0 /\ Len(chain_of_presents) = 0
                   /\ Len(large_bag') = 0 /\ Len(chain_of_presents') = 0]_vars

C20_Witness ==
    \E s, t \in servants :
        /\ pc[s] = "add_drop_read"
        /\ is_empty[s]
        /\ pc[t] = "add_write_chain"
        /\ maybe_present[t] # None

====
